---- MODULE Spec2Model ----
(***************************************************************************)
(* Model of debug-supabase-storage.mjs: an interactive menu-driven         *)
(* diagnostic session against a remote storage API.                        *)
(*                                                                         *)
(* The session is one asynchronous control flow.  An action of the model   *)
(* is the code that runs between two awaits: it completes the awaited call *)
(* (choosing its outcome), runs the synchronous code that follows and      *)
(* issues the next awaited call.  Calls to the remote API have three       *)
(* outcomes: a result without error ("ok"), a result carrying an error     *)
(* ("err"), and a raised exception / rejected promise ("throw").           *)
(* Local file-system calls follow the file-system's semantics (a write     *)
(* into a missing directory raises, an unlink of an existing file works);  *)
(* the recursive removal of the temporary directory at exit, which walks   *)
(* a whole tree and whose failure option 9 reports, returns or raises.     *)
(***************************************************************************)
EXTENDS Integers, Sequences, FiniteSets, TLC

VARIABLES
    env,        \* process.env: the endpoint URL and the two keys
    supabase,   \* TRUE once the module-level client handle is assigned
    pc,         \* position of the control flow
    cur,        \* the handler mainLoop dispatched to ("none" outside one)
    stack,      \* return positions of the pending coreUploadProcessor / checkUrl calls
    tempDir,    \* TRUE iff TEMP_DIR_PATH exists
    files,      \* names of the files inside TEMP_DIR_PATH
    inflight,   \* number of remote calls issued and not yet settled
    probe,      \* the request and promise of the running checkUrl
    out,        \* calls made and lines reported since the last dispatch
    loc,        \* local variables of the running handler
    hintMsg,    \* argument of getErrorHint (classifier specification)
    hintOut     \* value returned by getErrorHint (classifier specification)

vars == <<env, supabase, pc, cur, stack, tempDir, files, inflight, probe, out,
          loc, hintMsg, hintOut>>

mainVars == <<env, supabase, pc, cur, stack, tempDir, files, inflight, probe,
              out, loc>>

hintVars == <<hintMsg, hintOut>>

(***************************************************************************)
(* Bounds of the model.                                                    *)
(***************************************************************************)
MaxBuckets == 2     \* most buckets a bucket listing returns
MaxMsgLen == 2      \* most keyword tokens in an error message

Range(s) == {s[i] : i \in DOMAIN s}

(***************************************************************************)
(* getErrorHint.  A message is a sequence of tokens; each token is a       *)
(* fragment of text in some letter case.  String.toLowerCase maps a token  *)
(* to its lower-case form, String.includes looks for a keyword among the   *)
(* lower-cased fragments.  No keyword of the classifier is a substring of  *)
(* another one, so occurrence of a keyword is occurrence of its fragment.  *)
(***************************************************************************)
TokenTable ==
    { <<"unauthorized", "unauthorized">>, <<"Unauthorized", "unauthorized">>,
      <<"UNAUTHORIZED", "unauthorized">>, <<"Access Denied", "access denied">>,
      <<"JWT", "jwt">>, <<"Token", "token">>,
      <<"Not Found", "not found">>, <<"does not exist", "does not exist">>,
      <<"Timeout", "timeout">>, <<"Limit", "limit">>,
      <<"Already Exists", "already exists">>, <<"oops", "oops">> }

Tokens == {p[1] : p \in TokenTable}

Texts == UNION {[1..n -> Tokens] : n \in 0..MaxMsgLen}

\* an error object: message is undefined (defined = FALSE) or a text
Errors == {[defined |-> FALSE, message |-> <<>>]}
            \cup {[defined |-> TRUE, message |-> t] : t \in Texts}

toLowerCase(text) ==
    [i \in DOMAIN text |-> (CHOOSE p \in TokenTable : p[1] = text[i])[2]]

includes(text, keyword) == \E i \in DOMAIN text : text[i] = keyword

Hint(kind, echo) == [kind |-> kind, echo |-> echo]

NoHint == Hint("none", <<>>)

getErrorHint_TimeoutFirst(error) ==
    LET msg == IF error.defined THEN toLowerCase(error.message) ELSE <<>>
    IN  IF includes(msg, "timeout") THEN Hint("timeout", <<>>)
        ELSE IF includes(msg, "unauthorized") \/ includes(msg, "access denied")
                \/ includes(msg, "jwt") \/ includes(msg, "token")
        THEN Hint("auth", <<>>)
        ELSE IF includes(msg, "not found") \/ includes(msg, "does not exist")
        THEN Hint("missing", <<>>)
        ELSE IF includes(msg, "limit") THEN Hint("limit", <<>>)
        ELSE IF includes(msg, "already exists") THEN Hint("exists", <<>>)
        ELSE Hint("generic",
                  IF error.defined /\ error.message # <<>>
                  THEN error.message ELSE <<"Unknown Supabase error">>)

getErrorHint(error) ==
    LET msg == IF error.defined THEN toLowerCase(error.message) ELSE <<>>
    IN  IF includes(msg, "unauthorized") \/ includes(msg, "access denied")
           \/ includes(msg, "jwt") \/ includes(msg, "token")
        THEN Hint("auth", <<>>)
        ELSE IF includes(msg, "not found") \/ includes(msg, "does not exist")
        THEN Hint("missing", <<>>)
        ELSE IF includes(msg, "timeout") THEN Hint("timeout", <<>>)
        ELSE IF includes(msg, "limit") THEN Hint("limit", <<>>)
        ELSE IF includes(msg, "already exists") THEN Hint("exists", <<>>)
        ELSE Hint("generic",
                  IF error.defined /\ error.message # <<>>
                  THEN error.message ELSE <<"Unknown Supabase error">>)


(***************************************************************************)
(* Values.                                                                 *)
(***************************************************************************)
\* Classes of values of NEXT_PUBLIC_SUPABASE_URL:
\*   "unset"      undefined or empty
\*   "malformed"  new URL(...) raises
\*   "https"      https://host   (lower-case scheme)
\*   "http"       http://host    (lower-case scheme)
\*   "HTTPS"      HTTPS://host   (a scheme new URL accepts and lower-cases)
\*   "ftp"        ftp://host     (a well-formed URL of another scheme)
Urls == {"unset", "malformed", "https", "http", "HTTPS", "ftp"}

Envs == [url : Urls, serviceKey : BOOLEAN, anonKey : BOOLEAN]

\* new URL(supabaseUrl) does not raise
UrlParses(u) == u \in {"https", "http", "HTTPS", "ftp"}

\* url.startsWith("https:"), a case-sensitive test on the text
StartsWithHttps(u) == u = "https"

\* the protocol of the parsed URL (the parser lower-cases the scheme)
ParsedProtocol(u) ==
    CASE u \in {"https", "HTTPS"} -> "https:"
      [] u = "http" -> "http:"
      [] OTHER -> "ftp:"

\* protocol.get(url, ...) raises ERR_INVALID_PROTOCOL when the URL's protocol
\* is not the protocol of the module it is called on
GetRaises(u) ==
    ParsedProtocol(u) # (IF StartsWithHttps(u) THEN "https:" ELSE "http:")

\* createClient(url, key) with a non-empty key: builds the handle for an
\* http(s) URL; for another scheme the client library may reject the URL
CreateClientOutcomes(u) ==
    IF ParsedProtocol(u) \in {"https:", "http:"} THEN {"ok"} ELSE {"ok", "throw"}

Outcomes == {"ok", "err", "throw"}

\* HTTP status codes a response may carry
Statuses == {200, 399, 400, 404}

\* object paths typed at the download prompt, and path.basename of each
ObjPaths == {"a.txt", "dir/b.txt"}

basename(p) == IF p = "dir/b.txt" THEN "b.txt" ELSE p

DownloadName(p) == IF basename(p) = "a.txt" THEN "download_a.txt" ELSE "download_b.txt"

TEST_TEXT_FILENAME == "debug-text.txt"
TEST_IMAGE_FILENAME == "debug-image.png"

FileNames == {TEST_TEXT_FILENAME, TEST_IMAGE_FILENAME}
                \cup {DownloadName(p) : p \in ObjPaths}

Log(lvl, what) == <<"log", lvl, what>>
Call(op, res) == <<"call", op, res>>

\* the value of mainLoop's local "choice" before the question is answered
NoChoice == "(not answered)"

NoLoc == [file |-> "", obj |-> "", nb |-> 0, i |-> 0, upRet |-> "null",
          choice |-> NoChoice]

NoResult == [accessible |-> FALSE, statusCode |-> 0 - 1, error |-> "none"]

\* status: res.statusCode of the response received, if one was
IdleProbe == [state |-> "idle", fired |-> {}, destroyed |-> FALSE,
              first |-> "none", status |-> 0 - 1, result |-> NoResult]

PendingProbe == [IdleProbe EXCEPT !.state = "pending"]

(***************************************************************************)
(* checkUrl: one GET request with three callbacks.  The promise is         *)
(* resolved by the first callback that calls resolve; later calls of       *)
(* resolve have no effect.                                                 *)
(***************************************************************************)
Resolve_LastWins(p, cb, value) ==
    [p EXCEPT !.fired = @ \cup {cb},
              !.first = IF @ = "none" THEN cb ELSE @,
              !.state = "settled",
              !.result = value]

\* resolve(value) called from callback cb
Resolve(p, cb, value) ==
    [p EXCEPT !.fired = @ \cup {cb},
              !.first = IF @ = "none" THEN cb ELSE @,
              !.state = "settled",
              !.result = IF p.state = "pending" THEN value ELSE @]

OnResponse_Upto400(p, s) ==
    Resolve([p EXCEPT !.status = s], "response",
            [accessible |-> s >= 200 /\ s <= 400, statusCode |-> s, error |-> "none"])

\* (res) => { resolve({accessible, statusCode}); res.resume(); }
OnResponse(p, s) ==
    Resolve([p EXCEPT !.status = s], "response",
            [accessible |-> s >= 200 /\ s < 400, statusCode |-> s, error |-> "none"])

\* req.on("error", ...)
OnError(p) ==
    Resolve(p, "error",
            [accessible |-> FALSE, statusCode |-> 0, error |-> "Network error"])

OnTimeout_DestroyOnly(p) ==
    [p EXCEPT !.destroyed = TRUE, !.fired = @ \cup {"timeout"},
              !.first = IF @ = "none" THEN "timeout" ELSE @]

\* req.on("timeout", () => { req.destroy(); resolve({... "Timeout"}); })
OnTimeout(p) ==
    Resolve([p EXCEPT !.destroyed = TRUE], "timeout",
            [accessible |-> FALSE, statusCode |-> 0, error |-> "Timeout"])

\* a call leaves the set of calls in flight when its promise settles
SettledNow(p, q) == IF p.state = "pending" /\ q.state = "settled" THEN 1 ELSE 0

CheckUrlResponse(s) ==
    /\ pc = "checkUrl"
    /\ probe.state \in {"pending", "settled"}
    /\ probe.fired \cap {"response", "error"} = {}
    /\ ~probe.destroyed
    /\ probe' = OnResponse(probe, s)
    /\ inflight' = inflight - SettledNow(probe, probe')
    /\ UNCHANGED <<env, supabase, pc, cur, stack, tempDir, files, out, loc, hintVars>>

\* a socket error, or the "socket hang up" that follows req.destroy()
CheckUrlError ==
    /\ pc = "checkUrl"
    /\ probe.state \in {"pending", "settled"}
    /\ "error" \notin probe.fired
    /\ probe' = OnError(probe)
    /\ inflight' = inflight - SettledNow(probe, probe')
    /\ UNCHANGED <<env, supabase, pc, cur, stack, tempDir, files, out, loc, hintVars>>

CheckUrlTimeout ==
    /\ pc = "checkUrl"
    /\ probe.state \in {"pending", "settled"}
    /\ probe.fired \cap {"timeout", "error"} = {}
    /\ ~probe.destroyed
    /\ probe' = OnTimeout(probe)
    /\ inflight' = inflight - SettledNow(probe, probe')
    /\ UNCHANGED <<env, supabase, pc, cur, stack, tempDir, files, out, loc, hintVars>>

Awaited_NotAwaited(p) == TRUE

\* "await checkUrl(...)": the caller resumes once the promise is settled
Awaited(p) == p.state = "settled"

CheckUrlReturn ==
    /\ pc = "checkUrl"
    /\ Awaited(probe)
    /\ pc' = Head(stack)
    /\ stack' = Tail(stack)
    /\ UNCHANGED <<env, supabase, cur, tempDir, files, inflight, probe, out, loc, hintVars>>

(***************************************************************************)
(* Startup: start() and validateEnvAndInitClient().                        *)
(***************************************************************************)
UrlLines(e) ==
    IF UrlParses(e.url) THEN <<Log("success", "url")>> ELSE <<Log("error", "url")>>

KeyLines(e) ==
    IF ~(e.serviceKey \/ e.anonKey) THEN <<Log("error", "key")>>
    ELSE <<Log("success", "key")>>
           \o (IF ~e.serviceKey THEN <<Log("warn", "anon key")>> ELSE <<>>)

EnvValid_KeyOnly(e) == e.serviceKey \/ e.anonKey

\* the value of "valid" at line 167
EnvValid(e) == UrlParses(e.url) /\ (e.serviceKey \/ e.anonKey)

\* validateEnvAndInitClient up to its first await, and start()'s handling of
\* a false result
ValidateEnvAndInitClient ==
    /\ pc = "start"
    /\ LET lines == UrlLines(env) \o KeyLines(env)
       IN  IF ~EnvValid(env)
           THEN /\ out' = lines \o <<Log("error", "critical env"), Log("error", "setup failed")>>
                /\ pc' = "aborted"
                /\ UNCHANGED <<supabase, stack, inflight, probe>>
           ELSE \E c \in CreateClientOutcomes(env.url) :
                  IF c = "throw"
                  THEN /\ out' = lines \o <<Log("error", "client init failed"),
                                            Log("error", "setup failed")>>
                       /\ pc' = "aborted"
                       /\ UNCHANGED <<supabase, stack, inflight, probe>>
                  ELSE /\ supabase' = TRUE
                       /\ IF GetRaises(env.url)
                          THEN \* the executor raises: checkUrl's promise rejects
                               /\ probe' = [IdleProbe EXCEPT !.state = "rejected"]
                               /\ out' = lines \o <<Log("success", "client"),
                                                    Log("error", "client init failed"),
                                                    Log("error", "setup failed")>>
                               /\ pc' = "aborted"
                               /\ UNCHANGED <<stack, inflight>>
                          ELSE /\ probe' = PendingProbe
                               /\ out' = lines \o <<Log("success", "client")>>
                               /\ inflight' = inflight + 1
                               /\ stack' = <<"validate_ping">> \o stack
                               /\ pc' = "checkUrl"
    /\ UNCHANGED <<env, cur, tempDir, files, loc, hintVars>>

\* lines 178-190: report the ping and return true
ValidatePing ==
    /\ pc = "validate_ping"
    /\ out' = Append(out, IF probe.result.accessible THEN Log("success", "ping")
                          ELSE Log("warn", "ping"))
    /\ probe' = IdleProbe
    /\ pc' = "validated"
    /\ UNCHANGED <<env, supabase, cur, stack, tempDir, files, inflight, loc, hintVars>>

\* start(): await mainLoop(); mainLoop clears the console and asks
Start ==
    /\ pc = "validated"
    /\ pc' = "menu"
    /\ out' = <<>>
    /\ UNCHANGED <<env, supabase, cur, stack, tempDir, files, inflight, probe, loc, hintVars>>


(***************************************************************************)
(* mainLoop and menuActions.                                               *)
(***************************************************************************)
\* the own keys of menuActions
MenuKeys == {"1", "2", "3", "4", "5", "6", "7", "8", "9"}

\* a key menuActions inherits from Object.prototype: menuActions[key] is a
\* function, which has no property func
InheritedKeys == {"constructor"}

\* answers typed at "Your choice:" ("0" and "" stand for the other strings)
Choices == MenuKeys \cup InheritedKeys \cup {"0", ""}

HandlerOf(c) ==
    CASE c = "1" -> "checkConnectivity"
      [] c = "2" -> "showBuckets"
      [] c = "3" -> "uploadText"
      [] c = "4" -> "uploadImage"
      [] c = "5" -> "handleCustomFileUpload"
      [] c = "6" -> "showBucketFiles"
      [] c = "7" -> "checkDownload"
      [] c = "8" -> "fullDiagnostics"
      [] OTHER -> "none"

Handlers == {HandlerOf(c) : c \in MenuKeys \ {"9"}}

\* menuActions[choice] is truthy
Selected(c) == c \in MenuKeys \cup InheritedKeys

\* fs.rmSync(TEMP_DIR_PATH, {recursive, force}) returns or raises
RmOutcomes == {"ok", "throw"}

\* one line per file the removal deleted
RECURSIVE RemovedLines(_)
RemovedLines(S) ==
    IF S = {} THEN <<>>
    ELSE LET n == CHOOSE x \in S : TRUE
         IN  <<<<"fs", "rm", n>>>> \o RemovedLines(S \ {n})

\* lines 772-781: what option 9 reports
ExitLines(existed, r, removed) ==
    IF ~existed THEN <<>>
    ELSE RemovedLines(removed)
         \o <<IF r = "ok" THEN Log("info", "temp dir cleaned")
                         ELSE Log("warn", "temp cleanup failed")>>

LoopsAgain_Always(c) == TRUE

\* line 799: if (choice !== "9")
LoopsAgain(c) == c # "9"

\* mainLoop from the answer to the dispatch; option 9 runs here in full.
\* A removal that raises leaves the directory and any part of its content.
MainLoop(c) ==
    /\ pc = "menu"
    /\ loc' = [loc EXCEPT !.choice = c]
    /\ IF ~Selected(c)
       THEN /\ out' = <<Log("warn", "invalid selection")>>
            /\ pc' = "pressEnter"
            /\ UNCHANGED <<cur, tempDir, files>>
       ELSE IF c \in InheritedKeys
       THEN \* selectedAction.func is not a function: mainLoop raises
            /\ pc' = "fatal"
            /\ UNCHANGED <<cur, tempDir, files, out>>
       ELSE IF c = "9"
       THEN \* rl.close(); fs.rmSync(TEMP_DIR_PATH, {recursive, force})
            /\ \E r \in RmOutcomes, left \in SUBSET files :
                 /\ r = "ok" => left = {}
                 /\ ~tempDir => r = "ok"
                 /\ tempDir' = (tempDir /\ r = "throw")
                 /\ files' = left
                 /\ out' = ExitLines(tempDir, r, files \ left)
            /\ pc' = IF LoopsAgain(c) THEN "pressEnter" ELSE "done"
            /\ UNCHANGED cur
       ELSE /\ cur' = HandlerOf(c)
            /\ pc' = HandlerOf(c)
            /\ out' = <<>>
            /\ UNCHANGED <<tempDir, files>>
    /\ UNCHANGED <<env, supabase, stack, inflight, probe, hintVars>>

\* pressEnterToContinue(); mainLoop() again, which clears the console
PressEnterToContinue ==
    /\ pc = "pressEnter"
    /\ pc' = "menu"
    /\ cur' = "none"
    /\ out' = <<>>
    /\ loc' = NoLoc
    /\ probe' = IdleProbe
    /\ UNCHANGED <<env, supabase, stack, tempDir, files, inflight, hintVars>>

(***************************************************************************)
(* coreUploadProcessor.                                                    *)
(***************************************************************************)
\* what getPublicUrl hands back: a record with a publicUrl, or without one
PublicUrls == {"url", "none"}

\* lines 221-225 and 251-255: a failed upload call
UploadFailedLines(o) ==
    IF o = "err" THEN <<Call("upload", "err"), Log("error", "upload failed"), Log("tip", "upload")>>
    ELSE <<Call("upload", "throw"), Log("error", "upload exception"), Log("tip", "upload")>>

\* the upload call returns: lines 221-236 / 245-256
CoreUploadProcessor(o, u) ==
    /\ pc = "upload"
    /\ IF o # "ok"
       THEN /\ out' = out \o UploadFailedLines(o)
            /\ loc' = [loc EXCEPT !.upRet = "null"]
            /\ pc' = Head(stack)
            /\ stack' = Tail(stack)
            /\ inflight' = inflight - 1
            /\ UNCHANGED probe
       ELSE IF u = "none"
       THEN /\ out' = out \o <<Call("upload", "ok"), Log("success", "upload"),
                               Call("getPublicUrl", "none"), Log("warn", "no public url")>>
            /\ loc' = [loc EXCEPT !.upRet = "path"]
            /\ pc' = Head(stack)
            /\ stack' = Tail(stack)
            /\ inflight' = inflight - 1
            /\ UNCHANGED probe
       ELSE /\ out' = out \o <<Call("upload", "ok"), Log("success", "upload"),
                               Call("getPublicUrl", "url"), Call("checkUrl", "issued")>>
            /\ probe' = PendingProbe
            /\ stack' = <<"upload_probed">> \o stack
            /\ pc' = "checkUrl"
            /\ inflight' = inflight - 1 + 1
            /\ UNCHANGED loc
    /\ UNCHANGED <<env, supabase, cur, tempDir, files, hintVars>>

CoreUploadProbed_NullIfInaccessible ==
    /\ pc = "upload_probed"
    /\ out' = Append(out, IF probe.result.accessible THEN Log("success", "public url")
                          ELSE Log("warn", "public url"))
    /\ probe' = IdleProbe
    /\ loc' = [loc EXCEPT !.upRet = IF probe.result.accessible THEN "path" ELSE "null"]
    /\ pc' = Head(stack)
    /\ stack' = Tail(stack)
    /\ UNCHANGED <<env, supabase, cur, tempDir, files, inflight, hintVars>>

\* lines 237-250: report the probe, return data.path
CoreUploadProbed ==
    /\ pc = "upload_probed"
    /\ out' = Append(out, IF probe.result.accessible THEN Log("success", "public url")
                          ELSE Log("warn", "public url"))
    /\ probe' = IdleProbe
    /\ loc' = [loc EXCEPT !.upRet = "path"]
    /\ pc' = Head(stack)
    /\ stack' = Tail(stack)
    /\ UNCHANGED <<env, supabase, cur, tempDir, files, inflight, hintVars>>

(***************************************************************************)
(* handleGeneratedFileUpload (options 3 and 4), prepareTestFile.           *)
(***************************************************************************)
TestFileName(h) == IF h = "uploadText" THEN TEST_TEXT_FILENAME ELSE TEST_IMAGE_FILENAME

\* the prompts, prepareTestFile and the call of coreUploadProcessor
HandleGeneratedFileUpload(bucketName) ==
    /\ pc \in {"uploadText", "uploadImage"}
    /\ IF ~bucketName
       THEN /\ out' = Append(out, Log("error", "bucket name required"))
            /\ pc' = "pressEnter"
            /\ UNCHANGED <<tempDir, files, loc, stack, inflight>>
       ELSE \* prepareTestFile: mkdirSync when missing, writeFileSync
            /\ tempDir' = TRUE
            /\ files' = files \cup {TestFileName(pc)}
            /\ loc' = [loc EXCEPT !.file = TestFileName(pc)]
            /\ out' = out \o <<<<"fs", "write", TestFileName(pc)>>, Log("info", "upload attempt")>>
            /\ stack' = <<"generated_cleanup">> \o stack
            /\ pc' = "upload"
            /\ inflight' = inflight + 1
    /\ UNCHANGED <<env, supabase, cur, probe, hintVars>>

\* fs.unlinkSync(path) inside try/catch: the file system after it, and the line
Unlink(fs, name) == fs \ {name}

UnlinkLine(fs, name) ==
    IF name \in fs THEN Log("info", "cleaned up test file") ELSE Log("warn", "cleanup failed")

GeneratedCleanup_OnSuccessOnly ==
    /\ pc = "generated_cleanup"
    /\ files' = IF loc.upRet # "null" THEN Unlink(files, loc.file) ELSE files
    /\ out' = Append(out, UnlinkLine(files, loc.file))
    /\ pc' = "pressEnter"
    /\ UNCHANGED <<env, supabase, cur, stack, tempDir, inflight, probe, loc, hintVars>>

\* lines 318-323, after coreUploadProcessor returned
GeneratedCleanup ==
    /\ pc = "generated_cleanup"
    /\ files' = Unlink(files, loc.file)
    /\ out' = Append(out, UnlinkLine(files, loc.file))
    /\ pc' = "pressEnter"
    /\ UNCHANGED <<env, supabase, cur, stack, tempDir, inflight, probe, loc, hintVars>>

(***************************************************************************)
(* handleCustomFileUpload (option 5).                                      *)
(***************************************************************************)
HandleCustomFileUpload(fileExists, bucketName) ==
    /\ pc = "handleCustomFileUpload"
    /\ IF ~fileExists
       THEN /\ out' = Append(out, Log("error", "file not found"))
            /\ pc' = "pressEnter"
            /\ UNCHANGED <<stack, inflight>>
       ELSE IF ~bucketName
       THEN /\ out' = Append(out, Log("error", "bucket name required"))
            /\ pc' = "pressEnter"
            /\ UNCHANGED <<stack, inflight>>
       ELSE /\ out' = Append(out, Log("info", "upload attempt"))
            /\ stack' = <<"custom_done">> \o stack
            /\ pc' = "upload"
            /\ inflight' = inflight + 1
    /\ UNCHANGED <<env, supabase, cur, tempDir, files, probe, loc, hintVars>>

CustomDone ==
    /\ pc = "custom_done"
    /\ pc' = "pressEnter"
    /\ UNCHANGED <<env, supabase, cur, stack, tempDir, files, inflight, probe, out, loc, hintVars>>


(***************************************************************************)
(* checkConnectivity (option 1).                                           *)
(***************************************************************************)
\* outcomes of supabase.auth.getUser(): "err" is an error other than
\* "Auth session missing!", "no session" is that error
GetUserOutcomes == {"ok", "err", "no session", "throw"}

CheckConnectivity ==
    /\ pc = "checkConnectivity"
    /\ IF supabase
       THEN /\ out' = Append(out, Log("success", "client exists"))
            /\ pc' = "conn_getUser"
            /\ inflight' = inflight + 1
       ELSE /\ out' = Append(out, Log("error", "client missing"))
            /\ pc' = "pressEnter"
            /\ UNCHANGED inflight
    /\ UNCHANGED <<env, supabase, cur, stack, tempDir, files, probe, loc, hintVars>>

\* getUser settles (.catch turns a rejection into an error result); lines 382-392
ConnGetUser(o) ==
    /\ pc = "conn_getUser"
    /\ out' = out \o <<Call("getUser", o),
                       IF o \in {"err", "throw"} THEN Log("warn", "auth check")
                       ELSE Log("info", "auth")>>
    /\ pc' = "conn_listBuckets"
    /\ inflight' = inflight - 1 + 1
    /\ UNCHANGED <<env, supabase, cur, stack, tempDir, files, probe, loc, hintVars>>

\* listBuckets settles, outside any try; lines 393-404
ConnListBuckets(o) ==
    /\ pc = "conn_listBuckets"
    /\ IF o = "throw"
       THEN /\ out' = Append(out, Call("listBuckets", o))
            /\ pc' = "fatal"
            /\ inflight' = inflight - 1
            /\ UNCHANGED <<stack, probe>>
       ELSE /\ out' = out \o <<Call("listBuckets", o),
                               IF o = "err" THEN Log("error", "storage api")
                               ELSE Log("success", "storage api"),
                               Call("checkUrl", "issued")>>
            /\ probe' = PendingProbe
            /\ stack' = <<"conn_cors">> \o stack
            /\ pc' = "checkUrl"
            /\ inflight' = inflight - 1 + 1
    /\ UNCHANGED <<env, supabase, cur, tempDir, files, loc, hintVars>>

\* lines 405-419
ConnCors ==
    /\ pc = "conn_cors"
    /\ out' = Append(out, IF probe.result.accessible \/ probe.result.statusCode = 400
                          THEN Log("success", "storage endpoint")
                          ELSE Log("warn", "storage endpoint"))
    /\ probe' = IdleProbe
    /\ pc' = "pressEnter"
    /\ UNCHANGED <<env, supabase, cur, stack, tempDir, files, inflight, loc, hintVars>>

(***************************************************************************)
(* showBuckets (option 2) and showBucketFiles (option 6).                  *)
(***************************************************************************)
ShowBuckets ==
    /\ pc = "showBuckets"
    /\ pc' = "buckets_list"
    /\ inflight' = inflight + 1
    /\ UNCHANGED <<env, supabase, cur, stack, tempDir, files, probe, out, loc, hintVars>>

ListLine(o, n, what) ==
    CASE o = "err" -> Log("error", what)
      [] o = "throw" -> Log("error", "unexpected")
      [] o = "ok" /\ n = 0 -> Log("warn", what)
      [] OTHER -> Log("success", what)

ShowBucketsDone(o, n) ==
    /\ pc = "buckets_list"
    /\ o # "ok" => n = 0
    /\ out' = out \o <<Call("listBuckets", o), ListLine(o, n, "buckets")>>
    /\ pc' = "pressEnter"
    /\ inflight' = inflight - 1
    /\ UNCHANGED <<env, supabase, cur, stack, tempDir, files, probe, loc, hintVars>>

ShowBucketFiles(bucketName) ==
    /\ pc = "showBucketFiles"
    /\ IF ~bucketName
       THEN /\ out' = Append(out, Log("error", "bucket name required"))
            /\ pc' = "pressEnter"
            /\ UNCHANGED inflight
       ELSE /\ out' = Append(out, Log("info", "listing files"))
            /\ pc' = "files_list"
            /\ inflight' = inflight + 1
    /\ UNCHANGED <<env, supabase, cur, stack, tempDir, files, probe, loc, hintVars>>

ShowBucketFilesDone(o, n) ==
    /\ pc = "files_list"
    /\ o # "ok" => n = 0
    /\ out' = out \o <<Call("list", o), ListLine(o, n, "files")>>
    /\ pc' = "pressEnter"
    /\ inflight' = inflight - 1
    /\ UNCHANGED <<env, supabase, cur, stack, tempDir, files, probe, loc, hintVars>>

(***************************************************************************)
(* checkDownload (option 7).                                               *)
(***************************************************************************)
CheckDownload(bucketName, filePath) ==
    /\ pc = "checkDownload"
    /\ IF ~bucketName
       THEN /\ out' = Append(out, Log("error", "bucket name required"))
            /\ pc' = "pressEnter"
            /\ UNCHANGED <<inflight, loc>>
       ELSE IF filePath = ""
       THEN /\ out' = Append(out, Log("error", "file path required"))
            /\ pc' = "pressEnter"
            /\ UNCHANGED <<inflight, loc>>
       ELSE /\ out' = Append(out, Log("info", "download attempt"))
            /\ loc' = [loc EXCEPT !.obj = filePath]
            /\ pc' = "download"
            /\ inflight' = inflight + 1
    /\ UNCHANGED <<env, supabase, cur, stack, tempDir, files, probe, hintVars>>

\* fs.writeFileSync(path.join(TEMP_DIR_PATH, name), ...): raises ENOENT when
\* the directory does not exist
WriteFile(dirExists, fs, name) == IF dirExists THEN fs \cup {name} ELSE fs

\* lines 541-563: the try block around the download call
DownloadLines(o, dirExists, name) ==
    CASE o = "err" -> <<Call("download", "err"), Log("error", "download failed"),
                        Log("tip", "download")>>
      [] o = "throw" -> <<Call("download", "throw"), Log("error", "download exception")>>
      [] OTHER -> IF dirExists
                  THEN <<Call("download", "ok"), Log("success", "download"),
                         <<"fs", "write", name>>, Log("info", "saved locally")>>
                  ELSE <<Call("download", "ok"), Log("success", "download"),
                         Log("error", "download exception")>>

CheckDownloadDone_ReturnOnFailure(o, u) ==
    /\ pc = "download"
    /\ files' = IF o = "ok" THEN WriteFile(tempDir, files, DownloadName(loc.obj)) ELSE files
    /\ IF u = "none" \/ o # "ok"
       THEN /\ out' = out \o DownloadLines(o, tempDir, DownloadName(loc.obj))
            /\ pc' = "pressEnter"
            /\ inflight' = inflight - 1
            /\ UNCHANGED <<stack, probe>>
       ELSE /\ out' = out \o DownloadLines(o, tempDir, DownloadName(loc.obj))
                         \o <<Call("getPublicUrl", "url"), Call("checkUrl", "issued")>>
            /\ probe' = PendingProbe
            /\ stack' = <<"download_probed">> \o stack
            /\ pc' = "checkUrl"
            /\ inflight' = inflight - 1 + 1
    /\ UNCHANGED <<env, supabase, cur, tempDir, loc, hintVars>>

\* the download call settles; lines 544-571 / 582-585
CheckDownloadDone(o, u) ==
    /\ pc = "download"
    /\ files' = IF o = "ok" THEN WriteFile(tempDir, files, DownloadName(loc.obj)) ELSE files
    /\ IF u = "none"
       THEN /\ out' = out \o DownloadLines(o, tempDir, DownloadName(loc.obj))
                         \o <<Call("getPublicUrl", "none"), Log("warn", "no public url")>>
            /\ pc' = "pressEnter"
            /\ inflight' = inflight - 1
            /\ UNCHANGED <<stack, probe>>
       ELSE /\ out' = out \o DownloadLines(o, tempDir, DownloadName(loc.obj))
                         \o <<Call("getPublicUrl", "url"), Call("checkUrl", "issued")>>
            /\ probe' = PendingProbe
            /\ stack' = <<"download_probed">> \o stack
            /\ pc' = "checkUrl"
            /\ inflight' = inflight - 1 + 1
    /\ UNCHANGED <<env, supabase, cur, tempDir, loc, hintVars>>

\* lines 572-581
CheckDownloadProbed ==
    /\ pc = "download_probed"
    /\ out' = Append(out, IF probe.result.accessible THEN Log("success", "public url")
                          ELSE Log("warn", "public url"))
    /\ probe' = IdleProbe
    /\ pc' = "pressEnter"
    /\ UNCHANGED <<env, supabase, cur, stack, tempDir, files, inflight, loc, hintVars>>


(***************************************************************************)
(* fullDiagnostics (option 8).                                             *)
(***************************************************************************)
\* lines 588-631: section 1, then the bucket listing of section 2 is issued
FullDiagnostics ==
    /\ pc = "fullDiagnostics"
    /\ out' = Append(out, IF supabase THEN Log("success", "client initialized")
                          ELSE Log("error", "client not initialized"))
    /\ pc' = "diag_buckets"
    /\ inflight' = inflight + 1
    /\ UNCHANGED <<env, supabase, cur, stack, tempDir, files, probe, loc, hintVars>>

\* the bucket listing of section 2 settles (inside the try of line 629);
\* then the first per-bucket listing, or the bucket listing of section 3
DiagBuckets(o, n) ==
    /\ pc = "diag_buckets"
    /\ o # "ok" => n = 0
    /\ IF o = "ok" /\ n > 0
       THEN /\ out' = out \o <<Call("listBuckets", o), Log("success", "buckets found")>>
            /\ loc' = [loc EXCEPT !.nb = n, !.i = 1]
            /\ pc' = "diag_files"
       ELSE /\ out' = out \o <<Call("listBuckets", o),
                               CASE o = "err" -> Log("error", "bucket listing")
                                 [] o = "throw" -> Log("error", "bucket ops")
                                 [] OTHER -> Log("warn", "no buckets")>>
            /\ UNCHANGED loc
            /\ pc' = "diag_target"
    /\ inflight' = inflight - 1 + 1
    /\ UNCHANGED <<env, supabase, cur, stack, tempDir, files, probe, hintVars>>

\* the line reported for the listing of one bucket
DiagFilesLine(o) ==
    CASE o = "err" -> Log("warn", "list files")
      [] o = "throw" -> Log("error", "bucket ops")
      [] OTHER -> Log("success", "list files")

\* does the for loop of line 636 go on to the next bucket after outcome o
LoopContinues_StopOnError(o, i, nb) == o = "ok" /\ i < nb

LoopContinues(o, i, nb) == o # "throw" /\ i < nb

\* the listing of bucket loc.i settles; lines 645-664
DiagFiles(o) ==
    /\ pc = "diag_files"
    /\ out' = out \o <<Call("list", o), DiagFilesLine(o)>>
    /\ IF LoopContinues(o, loc.i, loc.nb)
       THEN /\ loc' = [loc EXCEPT !.i = @ + 1]
            /\ pc' = "diag_files"
       ELSE /\ UNCHANGED loc
            /\ pc' = "diag_target"
    /\ inflight' = inflight - 1 + 1
    /\ UNCHANGED <<env, supabase, cur, stack, tempDir, files, probe, hintVars>>

\* the bucket listing of line 664 settles (outside any try); lines 665-678
\* or 712-722
DiagTarget(o, n) ==
    /\ pc = "diag_target"
    /\ o # "ok" => n = 0
    /\ IF o = "throw"
       THEN /\ out' = Append(out, Call("listBuckets2", o))
            /\ pc' = "fatal"
            /\ inflight' = inflight - 1
            /\ UNCHANGED <<stack, probe, tempDir, files, loc>>
       ELSE IF n = 0
       THEN /\ out' = out \o <<Call("listBuckets2", o), Log("warn", "no bucket for rw test"),
                               Call("checkUrl", "issued")>>
            /\ probe' = PendingProbe
            /\ stack' = <<"diag_cors">> \o stack
            /\ pc' = "checkUrl"
            /\ inflight' = inflight - 1 + 1
            /\ UNCHANGED <<tempDir, files, loc>>
       ELSE \* prepareTestFile("text"), then coreUploadProcessor
            /\ tempDir' = TRUE
            /\ files' = files \cup {TEST_TEXT_FILENAME}
            /\ loc' = [loc EXCEPT !.file = TEST_TEXT_FILENAME]
            /\ out' = out \o <<Call("listBuckets2", o), <<"fs", "write", TEST_TEXT_FILENAME>>,
                               Log("info", "upload attempt")>>
            /\ stack' = <<"diag_uploaded">> \o stack
            /\ pc' = "upload"
            /\ inflight' = inflight - 1 + 1
            /\ UNCHANGED probe
    /\ UNCHANGED <<env, supabase, cur, hintVars>>

\* coreUploadProcessor returned; lines 679-685 or 701-722
DiagUploaded ==
    /\ pc = "diag_uploaded"
    /\ IF loc.upRet # "null"
       THEN /\ out' = Append(out, Log("info", "download attempt"))
            /\ pc' = "diag_download"
            /\ inflight' = inflight + 1
            /\ UNCHANGED <<files, probe, stack>>
       ELSE /\ out' = out \o <<Log("error", "rw upload failed"),
                               <<"fs", "unlink", loc.file>>, Call("checkUrl", "issued")>>
            /\ files' = Unlink(files, loc.file)
            /\ probe' = PendingProbe
            /\ stack' = <<"diag_cors">> \o stack
            /\ pc' = "checkUrl"
            /\ inflight' = inflight + 1
    /\ UNCHANGED <<env, supabase, cur, tempDir, loc, hintVars>>

\* is the removal attempted after the download call returned with outcome o
RemoveAttempted_OnlyAfterOk(o) == o = "ok"

RemoveAttempted(o) == o \in {"ok", "err"}

\* the download of the round trip settles; lines 686-695
DiagDownload(o) ==
    /\ pc = "diag_download"
    /\ IF o = "throw"
       THEN /\ out' = Append(out, Call("download", o))
            /\ pc' = "fatal"
            /\ inflight' = inflight - 1
            /\ UNCHANGED <<files, probe, stack>>
       ELSE IF RemoveAttempted(o)
       THEN /\ out' = out \o <<Call("download", o),
                               IF o = "err" THEN Log("error", "download test")
                               ELSE Log("success", "download test"),
                               Log("info", "delete attempt")>>
            /\ pc' = "diag_remove"
            /\ inflight' = inflight - 1 + 1
            /\ UNCHANGED <<files, probe, stack>>
       ELSE /\ out' = out \o <<Call("download", o), Log("error", "download test"),
                               <<"fs", "unlink", loc.file>>, Call("checkUrl", "issued")>>
            /\ files' = Unlink(files, loc.file)
            /\ probe' = PendingProbe
            /\ stack' = <<"diag_cors">> \o stack
            /\ pc' = "checkUrl"
            /\ inflight' = inflight - 1 + 1
    /\ UNCHANGED <<env, supabase, cur, tempDir, loc, hintVars>>

\* the removal settles; lines 696-722
DiagRemove(o) ==
    /\ pc = "diag_remove"
    /\ IF o = "throw"
       THEN /\ out' = Append(out, Call("remove", o))
            /\ pc' = "fatal"
            /\ inflight' = inflight - 1
            /\ UNCHANGED <<files, probe, stack>>
       ELSE /\ out' = out \o <<Call("remove", o),
                               IF o = "err" THEN Log("warn", "delete test")
                               ELSE Log("success", "delete test"),
                               <<"fs", "unlink", loc.file>>, Call("checkUrl", "issued")>>
            /\ files' = Unlink(files, loc.file)
            /\ probe' = PendingProbe
            /\ stack' = <<"diag_cors">> \o stack
            /\ pc' = "checkUrl"
            /\ inflight' = inflight - 1 + 1
    /\ UNCHANGED <<env, supabase, cur, tempDir, loc, hintVars>>

\* lines 722-741
DiagCors ==
    /\ pc = "diag_cors"
    /\ out' = Append(out, CASE probe.result.statusCode = 404 -> Log("success", "public endpoint")
                            [] probe.result.statusCode > 0 -> Log("warn", "public endpoint")
                            [] OTHER -> Log("error", "public endpoint"))
    /\ probe' = IdleProbe
    /\ pc' = "pressEnter"
    /\ UNCHANGED <<env, supabase, cur, stack, tempDir, files, inflight, loc, hintVars>>

(***************************************************************************)
(* The session.                                                            *)
(***************************************************************************)
\* an error whose hint the classifier specification asks for first
FirstError == [defined |-> FALSE, message |-> <<>>]

Init ==
    /\ env \in Envs
    /\ supabase = FALSE
    /\ pc = "start"
    /\ cur = "none"
    /\ stack = <<>>
    /\ tempDir \in BOOLEAN
    /\ files = {}
    /\ inflight = 0
    /\ probe = IdleProbe
    /\ out = <<>>
    /\ loc = NoLoc
    /\ hintMsg = FirstError
    /\ hintOut = NoHint

Next ==
    \/ ValidateEnvAndInitClient
    \/ ValidatePing
    \/ Start
    \/ \E s \in Statuses : CheckUrlResponse(s)
    \/ CheckUrlError
    \/ CheckUrlTimeout
    \/ CheckUrlReturn
    \/ \E c \in Choices : MainLoop(c)
    \/ PressEnterToContinue
    \/ \E o \in Outcomes, u \in PublicUrls : CoreUploadProcessor(o, u)
    \/ CoreUploadProbed
    \/ \E b \in BOOLEAN : HandleGeneratedFileUpload(b)
    \/ GeneratedCleanup
    \/ \E f \in BOOLEAN, b \in BOOLEAN : HandleCustomFileUpload(f, b)
    \/ CustomDone
    \/ CheckConnectivity
    \/ \E o \in GetUserOutcomes : ConnGetUser(o)
    \/ \E o \in Outcomes : ConnListBuckets(o)
    \/ ConnCors
    \/ ShowBuckets
    \/ \E o \in Outcomes, n \in 0..MaxBuckets : ShowBucketsDone(o, n)
    \/ \E b \in BOOLEAN : ShowBucketFiles(b)
    \/ \E o \in Outcomes, n \in 0..MaxBuckets : ShowBucketFilesDone(o, n)
    \/ \E b \in BOOLEAN, p \in ObjPaths \cup {""} : CheckDownload(b, p)
    \/ \E o \in Outcomes, u \in PublicUrls : CheckDownloadDone(o, u)
    \/ CheckDownloadProbed
    \/ FullDiagnostics
    \/ \E o \in Outcomes, n \in 0..MaxBuckets : DiagBuckets(o, n)
    \/ \E o \in Outcomes : DiagFiles(o)
    \/ \E o \in Outcomes, n \in 0..MaxBuckets : DiagTarget(o, n)
    \/ DiagUploaded
    \/ \E o \in Outcomes : DiagDownload(o)
    \/ \E o \in Outcomes : DiagRemove(o)
    \/ DiagCors

Spec == Init /\ [][Next]_vars

(***************************************************************************)
(* The classifier on its own: any error object, then its hint.             *)
(***************************************************************************)
HintInit ==
    /\ env = [url |-> "https", serviceKey |-> TRUE, anonKey |-> FALSE]
    /\ supabase = FALSE
    /\ pc = "start"
    /\ cur = "none"
    /\ stack = <<>>
    /\ tempDir = FALSE
    /\ files = {}
    /\ inflight = 0
    /\ probe = IdleProbe
    /\ out = <<>>
    /\ loc = NoLoc
    /\ hintMsg \in Errors
    /\ hintOut = NoHint

\* logTip(getErrorHint(error))
GetErrorHint ==
    /\ hintOut = NoHint
    /\ hintOut' = getErrorHint(hintMsg)
    /\ UNCHANGED <<mainVars, hintMsg>>

\* the next error reported
NextError ==
    /\ hintOut # NoHint
    /\ hintMsg' \in Errors
    /\ hintOut' = NoHint
    /\ UNCHANGED mainVars

HintNext == GetErrorHint \/ NextError

HintSpec == HintInit /\ [][HintNext]_vars


(***************************************************************************)
(* Properties.                                                             *)
(***************************************************************************)
Has(e) == e \in Range(out)

\* the positions of the calls of op in out
CallsOf(op) == {i \in DOMAIN out : out[i][1] = "call" /\ out[i][2] = op}

\* the handler h has returned to mainLoop
Returned(h) == cur = h /\ pc = "pressEnter"

\* the handler h has ended: it returned, or an exception left it
Ended(h) == cur = h /\ pc \in {"pressEnter", "fatal"}

\* C1: no exception propagates out of an operation handler (options 1-8)
\* into mainLoop, whatever the outcomes of the remote calls it makes.
C1_NoExceptionLeavesHandler == ~(pc = "fatal" /\ cur \in Handlers)

\* C2: when checkDownload returns after a successful download, the inspection
\* file download_<basename> exists under the temp directory, whatever
\* operations ran before (also when the download is the first one).
C2_DownloadLeavesFile ==
    (Returned("checkDownload") /\ Has(Call("download", "ok")))
        => (tempDir /\ DownloadName(loc.obj) \in files)

\* C3 as stated: when checkDownload returns after a download attempt of any
\* outcome, the public URL was requested and the reachability probe was
\* performed after the attempt.
C3_ProbeAlwaysPerformed ==
    (Returned("checkDownload") /\ CallsOf("download") # {})
        => \E i \in CallsOf("download"), j \in CallsOf("getPublicUrl"), k \in CallsOf("checkUrl") :
              i < j /\ j < k

\* C3 as amended: when checkDownload returns after a download attempt of any
\* outcome, the public URL was requested after the attempt, and whenever that
\* request returned a URL the probe was performed next and its result reported.
C3_ProbeAfterAnyDownload ==
    (Returned("checkDownload") /\ CallsOf("download") # {})
        => \E i \in CallsOf("download"), j \in CallsOf("getPublicUrl") :
              /\ i < j
              /\ out[j][3] = "url" =>
                    /\ j + 2 <= Len(out)
                    /\ out[j + 1] = Call("checkUrl", "issued")
                    /\ out[j + 2] \in {Log("success", "public url"), Log("warn", "public url")}
              /\ out[j][3] = "none" => CallsOf("checkUrl") = {}

\* the download raised, and the probe still ran and was reported
C3_Witness ==
    /\ Returned("checkDownload")
    /\ Has(Call("download", "throw"))
    /\ Has(Call("checkUrl", "issued"))
    /\ Has(Log("warn", "public url"))

\* C4: when a generated-file upload handler returns after creating its local
\* payload, the payload is no longer in the temp directory, whatever the
\* outcome of the upload.
C4_PayloadRemoved ==
    (cur \in {"uploadText", "uploadImage"} /\ pc = "pressEnter"
        /\ Has(<<"fs", "write", TestFileName(cur)>>))
        => TestFileName(cur) \notin files

\* the upload raised inside coreUploadProcessor and the handler returned
C4_Witness ==
    /\ Returned("uploadImage")
    /\ Has(<<"fs", "write", TEST_IMAGE_FILENAME>>)
    /\ Has(Call("upload", "throw"))
    /\ TEST_IMAGE_FILENAME \notin files

WellFormed(r) ==
    /\ r.accessible \in BOOLEAN
    /\ r.statusCode \in Statuses \cup {0}
    /\ r.error \in {"none", "Network error", "Timeout"}
    /\ r.accessible = (r.statusCode >= 200 /\ r.statusCode < 400)
    /\ r.error # "none" => r.statusCode = 0

\* C5: the promise of checkUrl never rejects; whichever of response, network
\* error and timeout happens it resolves to a well-formed value, and a
\* request that times out resolves to {accessible: false, statusCode: 0,
\* error: "Timeout"}.
C5_ProbeAlwaysResolves ==
    /\ probe.state # "rejected"
    /\ probe.fired # {} => probe.state = "settled"
    /\ probe.state = "settled" => WellFormed(probe.result)
    /\ probe.first = "timeout" =>
          probe.result = [accessible |-> FALSE, statusCode |-> 0, error |-> "Timeout"]

(***************************************************************************)
(* C6: the classifier.                                                     *)
(***************************************************************************)
\* the keyword groups in their order, as the description of the classifier
\* gives them
KeywordGroups ==
    << [hint |-> "auth", keywords |-> {"unauthorized", "access denied", "jwt", "token"}],
       [hint |-> "missing", keywords |-> {"not found", "does not exist"}],
       [hint |-> "timeout", keywords |-> {"timeout"}],
       [hint |-> "limit", keywords |-> {"limit"}],
       [hint |-> "exists", keywords |-> {"already exists"}] >>

\* keyword occurs in the text in some letter case
OccursAnyCase(keyword, text) == \E i \in DOMAIN text : <<text[i], keyword>> \in TokenTable

MatchingGroups(error) ==
    {g \in DOMAIN KeywordGroups :
        error.defined /\ \E k \in KeywordGroups[g].keywords : OccursAnyCase(k, error.message)}

\* C6: getErrorHint returns the hint of the first keyword group (auth,
\* missing resource, timeout, limit, already exists) one of whose keywords
\* occurs in the message in any letter case, and the generic fallback when
\* none does; a message containing "unauthorized" in any case gets the auth
\* hint whatever else it contains.
C6_FirstGroupWins ==
    hintOut # NoHint =>
        LET m == MatchingGroups(hintMsg)
        IN  /\ m = {} => hintOut.kind = "generic"
            /\ m # {} => \E g \in m : /\ \A h \in m : g <= h
                                      /\ hintOut = Hint(KeywordGroups[g].hint, <<>>)
            /\ (hintMsg.defined /\ OccursAnyCase("unauthorized", hintMsg.message))
                  => hintOut.kind = "auth"

\* an upper-case "UNAUTHORIZED" after a timeout keyword still gets the auth hint
C6_Witness ==
    /\ hintMsg = [defined |-> TRUE, message |-> <<"Timeout", "UNAUTHORIZED">>]
    /\ hintOut = Hint("auth", <<>>)

(***************************************************************************)
(* C7: startup.                                                            *)
(***************************************************************************)
\* validateEnvAndInitClient is running or has just returned
InStartup ==
    \/ pc \in {"aborted", "validate_ping", "validated"}
    \/ pc = "checkUrl" /\ stack = <<"validate_ping">>

KeyPresent == env.serviceKey \/ env.anonKey

OnlyAnonKey == ~env.serviceKey /\ env.anonKey

C8_OneCallInFlight ==
    /\ inflight \in {0, 1}
    /\ pc \in {"start", "validated", "menu", "pressEnter", "done", "aborted", "fatal"}
          => inflight = 0
    /\ probe.state = "pending" => inflight = 1

\* the listing of the second bucket of Full Diagnostics is the one call in flight
C8_Witness == pc = "diag_files" /\ loc.i = 2 /\ inflight = 1

(***************************************************************************)
(* C9, C10: Full Diagnostics.                                              *)
(***************************************************************************)
\* section 3 found a bucket: the payload of the round trip was written
BucketFound == Has(<<"fs", "write", TEST_TEXT_FILENAME>>)

CallResults(op) == {out[i][3] : i \in CallsOf(op)}

\* C9 as stated: when Full Diagnostics finds a bucket, the upload, the
\* download and the delete of the round trip are all performed, in this order.
C9_RoundTripPerformed ==
    (Returned("fullDiagnostics") /\ BucketFound)
        => \E i \in CallsOf("upload"), j \in CallsOf("download"), k \in CallsOf("remove") :
              i < j /\ j < k

\* C9 as amended: when Full Diagnostics finds a bucket, one upload is
\* performed; the download is attempted exactly when the upload returned a
\* stored path, and the delete exactly when the download call returned, with
\* or without an error; each sub-step performed is reported on its own, a
\* failed delete as a warning.
C9_RoundTripAmended ==
    (Ended("fullDiagnostics") /\ BucketFound) =>
        /\ Cardinality(CallsOf("upload")) = 1
        /\ Cardinality(CallsOf("download")) <= 1
        /\ Cardinality(CallsOf("remove")) <= 1
        /\ CallsOf("download") # {} <=> CallResults("upload") = {"ok"}
        /\ CallsOf("remove") # {} <=> CallResults("download") \cap {"ok", "err"} # {}
        /\ \A i \in CallsOf("upload"), j \in CallsOf("download") : i < j
        /\ \A j \in CallsOf("download"), k \in CallsOf("remove") : j < k
        /\ "ok" \in CallResults("upload") <=> Has(Log("success", "upload"))
        /\ CallResults("upload") \cap {"err", "throw"} # {} <=> Has(Log("error", "rw upload failed"))
        /\ "ok" \in CallResults("download") <=> Has(Log("success", "download test"))
        /\ "err" \in CallResults("download") <=> Has(Log("error", "download test"))
        /\ "ok" \in CallResults("remove") <=> Has(Log("success", "delete test"))
        /\ "err" \in CallResults("remove") <=> Has(Log("warn", "delete test"))
        /\ ~Has(Log("error", "delete test"))

\* the download failed, the delete was still attempted, failed and was
\* reported as a warning
C9_Witness ==
    /\ Returned("fullDiagnostics")
    /\ Has(Call("upload", "ok"))
    /\ Has(Call("download", "err"))
    /\ Has(Call("remove", "err"))
    /\ Has(Log("warn", "delete test"))

\* section 2 of Full Diagnostics is over
ListingsOver ==
    cur = "fullDiagnostics" /\ pc \notin {"fullDiagnostics", "diag_buckets", "diag_files"}

\* C10 as stated: a listing is attempted for every bucket the bucket listing
\* returned.
C10_EveryBucketListed ==
    ListingsOver => Cardinality(CallsOf("list")) = loc.nb

\* C10 as amended: a listing is attempted for every bucket the bucket listing
\* returned, up to the first listing that raises: a listing that returns an
\* error is reported as a warning and the next bucket is listed, a listing
\* that raises is reported as an error and ends the enumeration.
C10_EveryBucketListedAmended ==
    ListingsOver =>
        /\ "throw" \notin CallResults("list") => Cardinality(CallsOf("list")) = loc.nb
        /\ Cardinality(CallsOf("list")) <= loc.nb
        /\ \A i \in CallsOf("list") :
              /\ out[i][3] = "err" => out[i + 1] = Log("warn", "list files")
              /\ out[i][3] = "ok" => out[i + 1] = Log("success", "list files")
              /\ out[i][3] = "throw" => /\ out[i + 1] = Log("error", "bucket ops")
                                        /\ \A j \in CallsOf("list") : j <= i

\* the listing of the first bucket returned an error and the second bucket
\* was listed all the same
C10_Witness ==
    /\ ListingsOver
    /\ loc.nb = 2
    /\ \E i, j \in CallsOf("list") : i < j /\ out[i][3] = "err" /\ out[j][3] = "ok"

\* the positions at which a caller resumes after "await coreUploadProcessor(...)"
UploadReturns == {"generated_cleanup", "custom_done", "diag_uploaded"}

(***************************************************************************)
(* C11: in the menu loop every answer that is not one of "1" .. "9" is     *)
(* treated as invalid: no handler is invoked, the warning is printed and   *)
(* the loop goes on to show the menu again; the session neither ends nor   *)
(* fails.  (loc.choice holds an answer from the dispatch until the menu is *)
(* shown again.)                                                           *)
(***************************************************************************)
C11_InvalidInputReprintsMenu ==
    loc.choice \notin MenuKeys \cup {NoChoice}
        => /\ pc = "pressEnter"
           /\ cur = "none"
           /\ out = <<Log("warn", "invalid selection")>>

(***************************************************************************)
(* C12: option 9 ends the menu loop: the session is at its end, no handler *)
(* is running, no call is in flight and no step follows.  The temporary    *)
(* directory is gone with every file left in it, unless the removal        *)
(* raised, which is reported as a warning and ends the session the same    *)
(* way.                                                                    *)
(***************************************************************************)
C12_ExitEndsAndCleans ==
    /\ loc.choice = "9" => pc = "done"
    /\ pc = "done" =>
          /\ loc.choice = "9"
          /\ cur = "none"
          /\ inflight = 0
          /\ ~ENABLED Next
          /\ \/ ~tempDir /\ files = {}
             \/ Has(Log("warn", "temp cleanup failed"))
          /\ Has(Log("warn", "temp cleanup failed")) => tempDir

\* exit with a downloaded file still in the temporary directory
C12_Witness ==
    /\ pc = "done"
    /\ \E n \in FileNames : Has(<<"fs", "rm", n>>)
    /\ Has(Log("info", "temp dir cleaned"))
    /\ ~tempDir
    /\ files = {}

(***************************************************************************)
(* C13: coreUploadProcessor returns null exactly when the upload call      *)
(* reported an error or raised; when the upload call succeeded it returns  *)
(* the stored path, whether no public URL was returned, the probe found    *)
(* the URL accessible or the probe found it not accessible (a warning).    *)
(* Stated where a caller has just received the returned value.             *)
(***************************************************************************)
C13_NullIffUploadFailed ==
    pc \in UploadReturns =>
        /\ Cardinality(CallsOf("upload")) = 1
        /\ loc.upRet \in {"null", "path"}
        /\ loc.upRet = "null"
              <=> (Has(Call("upload", "err")) \/ Has(Call("upload", "throw")))
        /\ Has(Call("upload", "ok")) => loc.upRet = "path"
        /\ Has(Log("warn", "no public url")) => loc.upRet = "path"
        /\ Has(Log("warn", "public url")) => loc.upRet = "path"
        /\ loc.upRet = "null" => CallsOf("getPublicUrl") = {}

\* the upload succeeded, the probe of the public URL found it not accessible
C13_Witness ==
    /\ pc \in UploadReturns
    /\ Has(Call("upload", "ok"))
    /\ Has(Call("checkUrl", "issued"))
    /\ Has(Log("warn", "public url"))
    /\ loc.upRet = "path"

(***************************************************************************)
(* C14: in every interleaving of the response, error and timeout callbacks *)
(* of one probe the result is the value of the first callback that fired:  *)
(* a response with status s gives accessible = (200 <= s < 400) and        *)
(* statusCode = s, a timeout gives the Timeout value also after the error  *)
(* callback that follows req.destroy(), an error gives the Network error   *)
(* value; and no later callback changes a result once it is there.         *)
(***************************************************************************)
C14_ResultOfFirst ==
    /\ probe.first = "none" => probe.result = NoResult
    /\ probe.first = "response" =>
          /\ probe.status \in Statuses
          /\ probe.result = [accessible |-> probe.status >= 200 /\ probe.status < 400,
                             statusCode |-> probe.status, error |-> "none"]
    /\ probe.first = "timeout" =>
          probe.result = [accessible |-> FALSE, statusCode |-> 0, error |-> "Timeout"]
    /\ probe.first = "error" =>
          probe.result = [accessible |-> FALSE, statusCode |-> 0, error |-> "Network error"]

C14_LaterCallbackKeepsResult ==
    (probe.first # "none" /\ probe'.fired # {})
        => (probe'.first = probe.first /\ probe'.result = probe.result)

C14_FirstCallbackWins ==
    []C14_ResultOfFirst /\ [][C14_LaterCallbackKeepsResult]_vars

\* the timeout fired first, the error callback fired after it
C14_Witness ==
    /\ probe.first = "timeout"
    /\ probe.fired = {"timeout", "error"}
    /\ probe.destroyed
    /\ probe.result.error = "Timeout"

====
